---------------------------- MODULE Spec2Model ----------------------------
(***************************************************************************)
(* FSK Builder: the CSV loader, the option selector/ranker and the         *)
(* crossover-kit rule of fsk_app.py and its variants (v8, v9, v10, v13).   *)
(*                                                                         *)
(* Numbers.  A size or a priority is an integer count of thousandths       *)
(* (2750 is 2.75, 70000 is 70, 1000 is priority 1), so that the float      *)
(* comparisons and the int() truncation of the code are exact integer      *)
(* arithmetic here.  A quotient is kept as a fraction [num, den].          *)
(*                                                                         *)
(* Text.  A string of the CSV is a sequence of atoms; the atom " " is a    *)
(* whitespace character, every other atom is a run of non-blank text.      *)
(* <<>> is the empty string.                                               *)
(***************************************************************************)
EXTENDS Integers, Sequences, FiniteSets, TLC

VARIABLES
    cx,             \* crossover-kit query and its answer
    csv,            \* loader: the source handed to load_csv / load_data
    ld,             \* loader: the outcome of the load
    app,            \* which script of the repository is running
    fs,             \* the working directory: path -> file content or absent
    cache,          \* st.cache_data: path -> memoized load outcome
    session_state,  \* st.session_state of the browser session
    out,            \* what the last script run rendered
    reads           \* pd.read_csv calls made so far, per path

vars == <<cx, csv, ld, app, fs, cache, session_state, out, reads>>

-----------------------------------------------------------------------------
(* Crossover-kit rule *)

\* fsk_app.py:11 (also v9:11, v10:7, v13:8), in thousandths of an inch
SHAFT_CUTOFF_IN == 2750

\* the v8 inline rule's metric cutoff, 70 mm (v8:67), in thousandths
V8_CUTOFF_MM == 70000

\* largest shaft of the crossover queries, in quarter inches (the sizes go in
\* eighths of an inch) and in steps of 5 mm
MaxQuarterInches == 16
MaxFiveMm == 20

UnitStrings == {<<"in">>, <<"mm">>, <<"MM">>}

ShaftSizesOf(units) ==
    IF units = <<"in">> THEN {125 * k : k \in 1..(2 * MaxQuarterInches)}
                    ELSE {5000 * k : k \in 1..MaxFiveMm}

\* float(shaft) / 25.4 if units == "mm" else float(shaft); thousandths of an
\* inch as a fraction: s mm are s*10/254 in
shaft_in_inches(shaft, units) ==
    IF units = <<"mm">> THEN [num |-> shaft * 10, den |-> 254]
                    ELSE [num |-> shaft, den |-> 1]

\* si < 3.0 on a fraction: the small kit up to, not including, 3.0 in
BelowThreeInches(si) == si.num < 3000 * si.den

\* si <= SHAFT_CUTOFF_IN on a fraction
LeqCutoff(si) == si.num <= SHAFT_CUTOFF_IN * si.den

crossover_label(shaft, units) ==
    LET si == shaft_in_inches(shaft, units)
    IN  IF LeqCutoff(si) THEN "Crossover Kit 375" ELSE "Crossover Kit 500"

crossover_sku_for_shaft(shaft_size, shaft_units) ==
    LET si == shaft_in_inches(shaft_size, shaft_units)
    IN  IF LeqCutoff(si) THEN "CROSSOVER KITF" ELSE "CROSSOVER KIT2F"

\* the inline rule of fsk_app_v8_minimal_warehouse.py
crossover_v8(system, shaft) ==
    IF system = <<"Imperial">>
    THEN IF shaft <= SHAFT_CUTOFF_IN THEN "CROSSOVER KITF (3/8)"
                                     ELSE "CROSSOVER KIT2F (1/2)"
    ELSE IF shaft <= V8_CUTOFF_MM THEN "CROSSOVER KITF (3/8)"
                                  ELSE "CROSSOVER KIT2F (1/2)"

SmallKit == {"Crossover Kit 375", "CROSSOVER KITF", "CROSSOVER KITF (3/8)"}
LargeKit == {"Crossover Kit 500", "CROSSOVER KIT2F", "CROSSOVER KIT2F (1/2)"}

-----------------------------------------------------------------------------
(* Values of a DataFrame cell *)

\* a float cell: a number (in thousandths), NaN or an infinity
Num(n) == [k |-> "num", v |-> n]
NaN == [k |-> "nan", v |-> 0]
Inf == [k |-> "inf", v |-> 0]

\* a "string"-dtype cell: a string or <NA>
Str(s) == [na |-> FALSE, s |-> s]
NA == [na |-> TRUE, s |-> <<>>]

Range(f) == {f[i] : i \in DOMAIN f}

RECURSIVE LStrip(_)
LStrip(s) == IF s # <<>> /\ Head(s) = " " THEN LStrip(Tail(s)) ELSE s

RECURSIVE RStrip(_)
RStrip(s) ==
    IF s # <<>> /\ s[Len(s)] = " " THEN RStrip(SubSeq(s, 1, Len(s) - 1)) ELSE s

\* str.strip()
Strip(s) == RStrip(LStrip(s))

\* the strings pd.read_csv reads as a missing value (its default na_values)
NA_VALUES == {<<>>, <<"NA">>, <<"N/A">>, <<"nan">>, <<"NULL">>}

\* the decimal numerals of the model's sources, with the number each denotes
NumeralValue(a) ==
    CASE a = "0" -> 0
      [] a = "1" -> 1000
      [] a = "2" -> 2000
      [] a = "3" -> 3000
      [] a = "7" -> 7000
      [] a = "1.5" -> 1500
      [] a = "0.5" -> 500
      [] a = "2.5" -> 2500
      [] a = "2.75" -> 2750
      [] a = "3.0" -> 3000
      [] a = "3.5" -> 3500
      [] a = "4.0" -> 4000
      [] a = "70" -> 70000
      [] a = "80" -> 80000
      [] a = "90" -> 90000
      [] OTHER -> -1

Numerals ==
    {"0", "1", "2", "3", "7", "1.5", "0.5", "2.5", "2.75", "3.0", "3.5", "4.0",
     "70", "80", "90"}

\* pd.to_numeric(errors="coerce") of one cell as pd.read_csv delivers it: a
\* numeral, padded or not, is its number; "inf" is an infinity; a missing value
\* and every other text become NaN
to_numeric(cell) ==
    LET t == Strip(cell)
    IN  IF cell \in NA_VALUES THEN NaN
        ELSE IF Len(t) = 1 /\ t[1] \in Numerals THEN Num(NumeralValue(t[1]))
        ELSE IF t = <<"inf">> THEN Inf
        ELSE NaN

\* .astype("string").str.strip() of one cell: a missing value stays <NA>
astype_string_strip(cell) ==
    IF cell \in NA_VALUES THEN NA ELSE Str(Strip(cell))

\* str.lower() of one atom
Lower(a) ==
    CASE a = "TRUE" -> "true"
      [] a = "True" -> "true"
      [] a = "False" -> "false"
      [] a = "FALSE" -> "false"
      [] a = "YES" -> "yes"
      [] a = "Yes" -> "yes"
      [] a = "Y" -> "y"
      [] a = "NO" -> "no"
      [] OTHER -> a

BoolTokens == {<<"True">>, <<"False">>, <<"TRUE">>, <<"FALSE">>,
               <<"true">>, <<"false">>}
IntTokens == {<<"0">>, <<"1">>, <<"2">>, <<"3">>, <<"7">>}

NumeralCells == {<<a>> : a \in Numerals}

\* the dtype pd.read_csv infers for a column from its cells: integers, floats
\* (numbers, or integers with a missing value among them), booleans (kept as
\* Python booleans also beside missing values), or text
ColumnDtype(cells) ==
    LET present == {c \in cells : c \notin NA_VALUES}
    IN  IF present \subseteq NumeralCells
        THEN (IF present \subseteq IntTokens /\ present = cells /\ cells # {}
              THEN "int64" ELSE "float64")
        ELSE IF present \subseteq BoolTokens THEN "bool"
        ELSE "object"

\* .astype(str) of one cell of a column of that dtype
astype_str(cell, dtype) ==
    IF cell \in NA_VALUES THEN <<"nan">>
    ELSE IF dtype = "float64"
         THEN (IF cell \in IntTokens THEN <<cell[1], ".0">> ELSE cell)
    ELSE IF dtype = "bool"
         THEN (IF Lower(cell[1]) = "true" THEN <<"True">> ELSE <<"False">>)
    ELSE cell

TRUTHY == {<<"true">>, <<"1">>, <<"yes">>, <<"y">>}

\* .astype(str).str.lower().isin(["true","1","yes","y"]) of one cell
is_us_recommended(cell, dtype) ==
    LET s == astype_str(cell, dtype)
    IN  [i \in DOMAIN s |-> Lower(s[i])] \in TRUTHY

-----------------------------------------------------------------------------
(* Loader: load_csv (fsk_app.py), load_data (v9, v10, v13) *)

Loaders == {"fsk_app", "v9", "v10", "v13"}

\* the `required` list of each loader, in its order
required(variant) ==
    IF variant = "v9"
    THEN <<"System", "ShaftSize", "ShaftUnits", "SternSize", "SternUnits",
           "Priority", "FSA_Template", "Hose_Code",
           "Clamp1_Code", "Clamp1_Qty", "Clamp2_Code", "Clamp2_Qty",
           "Is_US_Recommended", "Stretch_Type", "Comments">>
    ELSE <<"ShaftSize", "ShaftUnits", "SternSize", "SternUnits",
           "Priority", "FSA_Template", "Hose_Code",
           "Clamp1_Code", "Clamp1_Qty", "Clamp2_Code", "Clamp2_Qty",
           "Is_US_Recommended", "Stretch_Type", "Comments">>

\* the columns each loader passes to pd.to_numeric
num_cols(variant) ==
    IF variant = "v9"
    THEN {"ShaftSize", "SternSize", "Priority", "Clamp1_Qty", "Clamp2_Qty"}
    ELSE {"ShaftSize", "SternSize", "Priority", "Clamp1_Qty", "Clamp2_Qty",
          "Stretch_Backend_in", "Stretch_Stern_in"}

\* the columns each loader casts to "string" and strips
text_cols(variant) ==
    IF variant = "v9"
    THEN {"System", "ShaftUnits", "SternUnits", "FSA_Template", "Hose_Code",
          "Clamp1_Code", "Clamp2_Code", "Stretch_Type", "Comments"}
    ELSE {"ShaftUnits", "SternUnits", "FSA_Template", "Hose_Code",
          "Clamp1_Code", "Clamp2_Code", "Stretch_Type", "Comments"}

\* the subset of df.dropna
dropna_subset(variant) ==
    IF variant = "v9"
    THEN {"System", "ShaftSize", "SternSize", "Priority", "FSA_Template", "Hose_Code"}
    ELSE {"ShaftSize", "SternSize", "Priority", "FSA_Template", "Hose_Code"}

\* every column a source of the model may hold
AllColumns ==
    <<"System", "ShaftSize", "ShaftUnits", "SternSize", "SternUnits",
      "Priority", "FSA_Template", "Hose_Code",
      "Clamp1_Code", "Clamp1_Qty", "Clamp2_Code", "Clamp2_Qty",
      "Is_US_Recommended", "Stretch_Type", "Comments",
      "Stretch_Backend_in", "Stretch_Stern_in">>

\* the header names as the file writes them, surrounding blanks kept
WrittenColumns(header) == {header[i] : i \in DOMAIN header}

\* df.columns = [c.strip() for c in df.columns]: the names the frame answers to
StrippedColumns(header) == {Strip(header[i]) : i \in DOMAIN header}

\* missing = [c for c in required if c not in df.columns]
MissingColumns(variant, header) ==
    LET cols == StrippedColumns(header)
    IN  SelectSeq(required(variant), LAMBDA c : <<c>> \notin cols)

\* pd.isna of a cell of the frame, whatever its dtype
IsNA(x) ==
    IF "k" \in DOMAIN x THEN x.k = "nan" ELSE x.na

\* a text cell as pd.read_csv gives it
read_csv_text(cell) == IF cell \in NA_VALUES THEN NA ELSE Str(cell)

\* one source row after the column conversions of the loader, over the columns
\* the source has: the numeric columns through pd.to_numeric, the flag through
\* the truthy test, the text columns through astype("string").str.strip(); a
\* column the loader does not convert is left as pd.read_csv gave it
ConvertRow(variant, cols, raw, flagDtype) ==
    [c \in {d \in DOMAIN raw : <<d>> \in cols} |->
        IF c \in num_cols(variant) THEN to_numeric(raw[c])
        ELSE IF c = "Is_US_Recommended" THEN is_us_recommended(raw[c], flagDtype)
        ELSE IF c \in text_cols(variant) THEN astype_string_strip(raw[c])
        ELSE IF c \in num_cols("fsk_app") THEN to_numeric(raw[c])
        ELSE read_csv_text(raw[c])]

\* df.dropna(subset=...): the rows with every mandatory column present
KeepRow(variant, r) == \A c \in dropna_subset(variant) : ~IsNA(r[c])

\* float -> int of astype(int): truncation toward zero, in thousandths
TruncInt(n) == IF n >= 0 THEN (n \div 1000) * 1000 ELSE 0 - (((0 - n) \div 1000) * 1000)

\* df["Priority"].astype(int) of one row
PriorityAsInt(r) == [r EXCEPT !["Priority"] = Num(TruncInt(@.v))]

\* lambda u: "Metric" if u == "mm" else "Imperial"   (u is never <NA> here)
measurement_system(u) == IF u.s = <<"mm">> THEN Str(<<"Metric">>) ELSE Str(<<"Imperial">>)

\* df["Measurement_System"] = df["ShaftUnits"].map(...)
WithMeasurementSystem(df) ==
    [i \in DOMAIN df |->
        df[i] @@ [Measurement_System |-> measurement_system(df[i]["ShaftUnits"])]]

\* the map above raises TypeError on a row whose ShaftUnits is <NA>:
\* `pd.NA == "mm"` is <NA>, which has no truth value
MapRaises(df) == \E i \in DOMAIN df : df[i]["ShaftUnits"].na

\* astype(int) raises on a column holding an infinity (NaN rows are gone)
AstypeIntRaises(df) == \E i \in DOMAIN df : df[i]["Priority"].k = "inf"

Loaded(df) == [status |-> "ok", exc |-> "", missing |-> <<>>, df |-> df]
Raised(exc, missing) == [status |-> "raise", exc |-> exc, missing |-> missing, df |-> <<>>]

\* whether the loader derives Measurement_System itself (fsk_app.py:65, v13:47)
DerivesMeasurementSystem(variant) == variant \in {"fsk_app", "v13"}

\* load_csv(path) / load_data(path) on a source [header, rows]
load_csv(variant, source) ==
    LET cols     == StrippedColumns(source.header)
        missing  == MissingColumns(variant, source.header)
        dtype    == ColumnDtype({source.rows[i]["Is_US_Recommended"] : i \in DOMAIN source.rows})
        conv     == [i \in DOMAIN source.rows |-> ConvertRow(variant, cols, source.rows[i], dtype)]
        kept     == SelectSeq(conv, LAMBDA r : KeepRow(variant, r))
    IN  IF missing # <<>> THEN Raised("KeyError", missing)
        ELSE IF AstypeIntRaises(kept) THEN Raised("IntCastingNaNError", <<>>)
        ELSE LET df == [i \in DOMAIN kept |-> PriorityAsInt(kept[i])]
             IN  IF ~DerivesMeasurementSystem(variant) THEN Loaded(df)
                 ELSE IF MapRaises(df) THEN Raised("TypeError", <<>>)
                 ELSE Loaded(WithMeasurementSystem(df))

-----------------------------------------------------------------------------
(* Sources of the loader *)

\* rows per source and required columns left out of a header, at most
MaxLoadRows == 2
MaxMissing == 2

BaseRow ==
    [System |-> <<"A">>, ShaftSize |-> <<"2.75">>, ShaftUnits |-> <<"in">>,
     SternSize |-> <<"3.5">>, SternUnits |-> <<"in">>, Priority |-> <<"1">>,
     FSA_Template |-> <<"F1">>, Hose_Code |-> <<"H1">>,
     Clamp1_Code |-> <<"CL1">>, Clamp1_Qty |-> <<"2">>,
     Clamp2_Code |-> <<"CL2">>, Clamp2_Qty |-> <<"3">>,
     Is_US_Recommended |-> <<"true">>, Stretch_Type |-> <<"backend">>,
     Comments |-> <<"note">>, Stretch_Backend_in |-> <<"0.5">>,
     Stretch_Stern_in |-> <<"0">>]

\* what a cell of column c may hold instead of the base row's value
CellValues(c) ==
    IF c = "Priority" THEN {<<>>, <<"abc">>, <<"1.5">>, <<"7">>, <<"inf">>}
    ELSE IF c \in num_cols("fsk_app") THEN {<<>>, <<"abc">>}
    ELSE IF c \in {"System", "FSA_Template", "Hose_Code"}
         THEN {<<>>, <<" ">>, <<" ", "F2", " ">>}
    ELSE IF c \in {"ShaftUnits", "SternUnits"}
         THEN {<<>>, <<"mm">>, <<" ", "mm", " ">>}
    ELSE IF c = "Is_US_Recommended"
         THEN {<<>>, <<"TRUE">>, <<"Y">>, <<"yes">>, <<"1">>, <<"0">>, <<"no">>}
    ELSE {<<>>}

LoadRowPool ==
    {BaseRow} \cup
    UNION {{[BaseRow EXCEPT ![c] = d] : d \in CellValues(c)} : c \in Range(AllColumns)}

RECURSIVE SeqsUpTo(_, _)
SeqsUpTo(S, n) ==
    IF n = 0 THEN {<<>>}
    ELSE LET P == SeqsUpTo(S, n - 1)
         IN  P \cup {Append(q, x) : q \in {r \in P : Len(r) = n - 1}, x \in S}

RECURSIVE SubsetsUpTo(_, _)
SubsetsUpTo(S, n) ==
    IF n = 0 THEN {{}}
    ELSE LET P == SubsetsUpTo(S, n - 1) IN P \cup {q \cup {x} : q \in P, x \in S}

\* a header row without the columns of `leftOut`, column `padded` written with
\* surrounding blanks
HeaderOf(leftOut, padded) ==
    LET present == SelectSeq(AllColumns, LAMBDA c : c \notin leftOut)
    IN  [i \in DOMAIN present |->
            IF present[i] = padded THEN <<" ", present[i], " ">> ELSE <<present[i]>>]

FullHeader == HeaderOf({}, "")

PaddedColumns == {"", "Priority", "System", "Stretch_Backend_in"}

LoadSources ==
    {[variant |-> v, header |-> FullHeader, rows |-> rs] :
        v \in Loaders, rs \in SeqsUpTo(LoadRowPool, MaxLoadRows)}
    \cup
    {[variant |-> v, header |-> HeaderOf(m, p), rows |-> <<BaseRow>>] :
        v \in Loaders, m \in SubsetsUpTo(Range(AllColumns), MaxMissing),
        p \in PaddedColumns}

NotLoaded == [status |-> "none", exc |-> "", missing |-> <<>>, df |-> <<>>]
NoSource == [variant |-> "", header |-> <<>>, rows |-> <<>>]
NoQuery == [shaft |-> 0, units |-> <<>>, system |-> <<>>, by |-> "", kit |-> ""]

-----------------------------------------------------------------------------
(* Helpers of the scripts: sorted(), unique(), sort_values, selectbox *)

\* Python's order on the strings the model uses (ASCII order)
TextRank(t) ==
    CASE t = <<"A">> -> 1
      [] t = <<"B">> -> 2
      [] t = <<"F1">> -> 3
      [] t = <<"F2">> -> 4
      [] t = <<"F3">> -> 5
      [] t = <<"H1">> -> 6
      [] t = <<"H2">> -> 7
      [] t = <<"Imperial">> -> 8
      [] t = <<"Metric">> -> 9
      [] OTHER -> 0

\* the sort key of a value of an axis: a size by its number, a text by its rank
AxisKey(x) == IF "k" \in DOMAIN x THEN x.v ELSE TextRank(x.s)

RECURSIVE SortedList(_)
\* sorted(values): ascending, one entry per distinct value
SortedList(S) ==
    IF S = {} THEN <<>>
    ELSE LET m == CHOOSE x \in S : \A y \in S : AxisKey(x) <= AxisKey(y)
         IN  <<m>> \o SortedList(S \ {m})

\* df[col].dropna().unique() as a set
UniqueValues(df, col) ==
    {df[i][col] : i \in {j \in DOMAIN df : ~IsNA(df[j][col])}}

\* df[df[col] == value]
WhereEq(df, col, value) == SelectSeq(df, LAMBDA r : r[col] = value /\ ~IsNA(value))

\* df[col].dropna(): the values present, in row order
PresentValues(df, col) ==
    LET rows == SelectSeq(df, LAMBDA r : ~IsNA(r[col]))
    IN  [i \in DOMAIN rows |-> rows[i][col]]

\* an order on the priority code alone
LowerPriorityCode(a, b) == a["Priority"].v < b["Priority"].v

\* the comparison of sort_values(["Priority", "Is_US_Recommended"],
\* ascending=[True, False]): a sorts strictly before b
RankedBefore(a, b) ==
    \/ a["Priority"].v < b["Priority"].v
    \/ /\ a["Priority"].v = b["Priority"].v
       /\ a["Is_US_Recommended"] /\ ~b["Is_US_Recommended"]

\* the comparison of sort_values("Priority") (v8)
PriorityBefore(a, b) == a["Priority"].v < b["Priority"].v

\* a stable sort: rows that compare equal keep their order in the frame
\* (pandas sorts several keys with a stable lexsort; numpy's default sort of
\* one key is an insertion sort, so stable, on the short candidate lists here).
\* Row i goes after the rows that sort before it and the equal rows above it.
StableSort(s, keys) ==
    LET Before(a, b) == IF keys = "Priority" THEN PriorityBefore(a, b) ELSE RankedBefore(a, b)
        place(i) == 1 + Cardinality({j \in DOMAIN s :
                        \/ Before(s[j], s[i])
                        \/ (~Before(s[i], s[j]) /\ j < i)})
    IN  [p \in DOMAIN s |-> s[CHOOSE i \in DOMAIN s : place(i) = p]]

\* cand.sort_values(["Priority","Is_US_Recommended"], ascending=[True, False])
\*     .reset_index(drop=True)
sort_values(cand) == StableSort(cand, "Priority, Is_US_Recommended")

\* safe_index(options, value, fallback=0), 0-based as in the code
safe_index(options, value) ==
    IF \E i \in DOMAIN options : options[i] = value
    THEN (CHOOSE i \in DOMAIN options :
             options[i] = value /\ \A j \in 1..(i - 1) : options[j] # value) - 1
    ELSE 0

\* what a selectbox without options returns: None, which equals no cell
NoneOf(axis) == IF axis \in {"shaft", "stern"} THEN NaN ELSE NA

\* a selectbox created with `index` and no stored state: options[index]
DefaultOption(axis, options, index) ==
    IF options = <<>> THEN NoneOf(axis) ELSE options[index + 1]

-----------------------------------------------------------------------------
(* What a script run leaves behind *)

Msg(text, arg) == [text |-> text, arg |-> arg]

NoSelection == [axis |-> NA, shaft |-> NaN, stern |-> NaN]

\* the page after a run.  status: "done" (ran to its end), "stop" (st.stop()),
\* "exception" (an uncaught exception, exc); errors/warnings: the st.error and
\* st.warning boxes; widgets: the options of each widget the run created;
\* sel, options, badges, crossover: the result section; calls: the paths the
\* run called its loader on
Page(status, exc, errors, warnings, widgets, result, calls) ==
    [status |-> status, exc |-> exc, errors |-> errors, warnings |-> warnings,
     widgets |-> widgets, sel |-> result.sel, options |-> result.options,
     badges |-> result.badges, crossover |-> result.crossover, calls |-> calls]

NoResult == [sel |-> NoSelection, options |-> <<>>, badges |-> <<>>, crossover |-> ""]

NoWidgets == [k \in {} |-> <<>>]

\* st.session_state after a run that ended normally or by st.stop(): the state
\* of a widget the run did not create is discarded
KeepRendered(ss, widgets) == [k \in (DOMAIN ss) \cap (DOMAIN widgets) |-> ss[k]]

\* dict assignment st.session_state[key] = value
SetKey(ss, key, value) == [k \in (DOMAIN ss) \cup {key} |-> IF k = key THEN value ELSE ss[k]]

-----------------------------------------------------------------------------------------------------------------------------------------------------
(* fsk_app_v8_minimal_warehouse.py: load_data *)

V8_NUMERIC == {"shaft_Value", "stern_Value", "Priority",
               "Clamp_Backend_Qty_Per_End", "Clamp_Stern_Qty_Per_End",
               "Total_Clamps_Per_Kit", "Stretch_Backend_In", "Stretch_Stern_In"}

\* load_data() of v8: pd.read_csv and nothing else; the frame keeps, beside
\* its rows, the names of its columns
v8_load_data(source) ==
    LET cols == Range(source.header)
        row(raw) == [c \in {d \in DOMAIN raw : <<d>> \in cols} |->
                        IF c \in V8_NUMERIC THEN to_numeric(raw[c])
                        ELSE read_csv_text(raw[c])]
    IN  [status |-> "ok", exc |-> "", missing |-> <<>>,
         df |-> [i \in DOMAIN source.rows |-> row(source.rows[i])]]

\* the loader of each script
Loader(script, source) ==
    IF script = "v8" THEN v8_load_data(source) ELSE load_csv(script, source)

-----
(* st.cache_data around the loader *)

MaxReads == 3

\* load through @st.cache_data: the memo is keyed by the call's arguments (the
\* path string); a call that raises stores nothing.  `variant` tells which
\* loader runs on a miss.
\* the wrapped function has run on a cache miss: its frame is memoized, an
\* exception is not
Memoize(o, path, memo, count) ==
    [outcome |-> o,
     cache |-> IF o.status = "ok" THEN [memo EXCEPT ![path] = o] ELSE memo,
     reads |-> [count EXCEPT ![path] = IF @ < MaxReads THEN @ + 1 ELSE @]]

CachedLoad(variant, path, files, memo, count) ==
    IF memo[path].status = "ok"
    THEN [outcome |-> memo[path], cache |-> memo, reads |-> count]
    ELSE IF ~files[path].exists
    THEN [outcome |-> Raised("FileNotFoundError", <<>>), cache |-> memo, reads |-> count]
    ELSE Memoize(Loader(variant, files[path].source), path, memo, count)

\* a memo that hands out the memoized frame itself: what the caller does to
\* the frame is done to the memo
SharedFrameMemo(memo, path, frame) == [memo EXCEPT ![path].df = frame]

\* what st.cache_data leaves in its memo when the caller changes the frame it
\* was handed: nothing, each call returns a copy of the memoized frame
MemoAfterCall(memo, path, frame) == memo

-----------------------------------------------------------------------------
(* fsk_app.py: main *)

CSV_STOCKED == "fsk_build_options_generated_v8_stocked_only_rich.csv"
CSV_STOCKED_OR_ORDERABLE == "fsk_build_options_generated_v8_stocked_or_orderable.csv"

ModeOptions == <<"Stocked by us", "Stocked + Can order">>

Imperial == Str(<<"Imperial">>)
Metric == Str(<<"Metric">>)

\* badge(kind, sku) of option_rows: the cell's text is looked up in the set of
\* the stocked frame's cells (str(<NA>) is in no such set)
badge(stocked, cell) ==
    IF ~cell.na /\ cell \in stocked THEN "Stocked" ELSE "Orderable"

\* the stocked codes with the clamps of the backend column alone
stocked_sets_backend_only(df_stocked) ==
    [FSA |-> {df_stocked[i]["FSA_Template"] : i \in DOMAIN df_stocked},
     HOSE |-> {df_stocked[i]["Hose_Code"] : i \in DOMAIN df_stocked},
     CLAMP |-> {df_stocked[i]["Clamp1_Code"] : i \in DOMAIN df_stocked}]

\* stocked_sets of main: the cells of the stocked frame, per kind of part
stocked_sets(df_stocked) ==
    [FSA |-> {df_stocked[i]["FSA_Template"] : i \in DOMAIN df_stocked},
     HOSE |-> {df_stocked[i]["Hose_Code"] : i \in DOMAIN df_stocked},
     CLAMP |-> {df_stocked[i]["Clamp1_Code"] : i \in DOMAIN df_stocked}
               \cup {df_stocked[i]["Clamp2_Code"] : i \in DOMAIN df_stocked}]

\* the status rows option_rows adds for one option
status_rows(row, sets) ==
    [FSA |-> badge(sets.FSA, row["FSA_Template"]),
     Hose |-> badge(sets.HOSE, row["Hose_Code"]),
     ClampBackend |-> badge(sets.CLAMP, row["Clamp1_Code"]),
     ClampStern |-> badge(sets.CLAMP, row["Clamp2_Code"])]

\* how the body of a script ends: its status, the session state it leaves,
\* the warnings and widgets on the page, the result section
Ended(status, exc, ss, warnings, widgets, result) ==
    [status |-> status, exc |-> exc, ss |-> ss, warnings |-> warnings,
     widgets |-> widgets, result |-> result]

\* if key not in st.session_state: st.session_state[key] = value
SetDefault(ss, key, value) == IF key \in DOMAIN ss THEN ss ELSE SetKey(ss, key, value)

\* the stored value is replaced by the first of vals whatever it was
ResetToFirst(ss, key, vals) == SetKey(ss, key, vals[1])

\* a stored value is kept even when it is not among vals
KeepStored(ss, key, vals) == IF key \notin DOMAIN ss THEN SetKey(ss, key, vals[1]) ELSE ss

\* if key not in st.session_state or st.session_state[key] not in vals:
\*     st.session_state[key] = vals[0]
EnsureIn(ss, key, vals) ==
    IF key \notin DOMAIN ss \/ ss[key] \notin Range(vals) THEN SetKey(ss, key, vals[1]) ELSE ss

\* the stocked frame whatever the mode
StockedFrame(mode, df_stocked, df_orderable) == df_stocked

\* df_stocked if mode == "Stocked by us" else df_orderable
FrameOfMode(mode, df_stocked, df_orderable) ==
    IF mode = ModeOptions[1] THEN df_stocked ELSE df_orderable

\* lines 265-299: the ranked candidates with their status rows and the
\* crossover caption
fsk_result_section(mode, ms, shaft, stern, shaft_units, cand, df_stocked) ==
    [sel |-> [axis |-> ms, shaft |-> shaft, stern |-> stern],
     options |-> sort_values(cand),
     badges |-> IF mode # ModeOptions[1]
                THEN [i \in DOMAIN cand |->
                        status_rows(sort_values(cand)[i], stocked_sets(df_stocked))]
                ELSE <<>>,
     crossover |-> crossover_label(shaft.v, shaft_units.s)]

\* lines 260-263 and on: the candidate filter
fsk_candidates(ss, widgets, df_stocked, dms, shaft, stern, shaft_units, cand) ==
    IF cand = <<>>
    THEN Ended("stop", "", KeepRendered(ss, widgets),
               <<Msg("No build options found for this shaft/stern combination.", "")>>,
               widgets, NoResult)
    ELSE Ended("done", "", ss, <<>>, widgets,
               fsk_result_section(ss["mode"], ss["ms"], shaft, stern, shaft_units, cand,
                                  df_stocked))

\* lines 243-258, "after toggle": the frame of the mode again, and the two
\* fallbacks that would assign a key whose widget exists already
fsk_after_toggle(ss, widgets, df_stocked, dms, shaft, stern, shaft_units) ==
    IF dms = <<>>
    THEN Ended("stop", "", KeepRendered(ss, widgets),
               <<Msg("No data found for the measurement system", "")>>, widgets, NoResult)
    ELSE IF shaft \notin UniqueValues(dms, "ShaftSize")
            \/ stern \notin UniqueValues(WhereEq(dms, "ShaftSize", shaft), "SternSize")
    THEN Ended("exception", "StreamlitAPIException", ss, <<>>, widgets, NoResult)
    ELSE fsk_candidates(ss, widgets, df_stocked, dms, shaft, stern, shaft_units,
                        SelectSeq(dms, LAMBDA r : r["ShaftSize"] = shaft
                                                  /\ r["SternSize"] = stern))

\* lines 219-232: the stern dropdown
fsk_stern_widget(ss, w2, df_stocked, df_orderable, shaft_vals, shaft, shaft_units, stern_vals) ==
    IF stern_vals = <<>>
    THEN Ended("stop", "", KeepRendered(ss, w2 @@ [shaft |-> shaft_vals]),
               <<Msg("No stern tube values available for that shaft size.", "")>>,
               w2 @@ [shaft |-> shaft_vals], NoResult)
    ELSE fsk_after_toggle(EnsureIn(ss, "stern", stern_vals),
                          w2 @@ [shaft |-> shaft_vals, stern |-> stern_vals],
                          df_stocked,
                          WhereEq(FrameOfMode(ss["mode"], df_stocked, df_orderable),
                                  "Measurement_System", ss["ms"]),
                          shaft,
                          stern_vals[safe_index(stern_vals,
                                        EnsureIn(ss, "stern", stern_vals)["stern"]) + 1],
                          shaft_units)

\* lines 211-217: the shaft dropdown on the session state made valid
fsk_shaft_widget(ss, w2, df_stocked, df_orderable, dms_mode, shaft_vals, shaft) ==
    fsk_stern_widget(ss, w2, df_stocked, df_orderable, shaft_vals, shaft,
                     PresentValues(dms_mode, "ShaftUnits")[1],
                     SortedList(UniqueValues(WhereEq(dms_mode, "ShaftSize", shaft),
                                             "SternSize")))

\* lines 200-209: the frame of the mode and measurement system, its units and
\* shaft sizes
fsk_mode_rows(ss, w2, df_stocked, df_orderable, dms_mode, shaft_vals) ==
    IF dms_mode = <<>>
    THEN Ended("stop", "", KeepRendered(ss, w2),
               <<Msg("No data found for the measurement system and mode", ss["mode"])>>,
               w2, NoResult)
    ELSE IF PresentValues(dms_mode, "ShaftUnits") = <<>>
            \/ PresentValues(dms_mode, "SternUnits") = <<>>
    THEN Ended("exception", "IndexError", ss, <<>>, w2, NoResult)
    ELSE fsk_shaft_widget(EnsureIn(ss, "shaft", shaft_vals), w2, df_stocked, df_orderable,
                          dms_mode, shaft_vals,
                          shaft_vals[safe_index(shaft_vals,
                                        EnsureIn(ss, "shaft", shaft_vals)["shaft"]) + 1])

\* lines 192-199: the measurement-system dropdown on the union of both frames
fsk_ms_widget(ss, ms_union, df_stocked, df_orderable) ==
    fsk_mode_rows(ss, [mode |-> ModeOptions, ms |-> ms_union], df_stocked, df_orderable,
                  WhereEq(FrameOfMode(ss["mode"], df_stocked, df_orderable),
                          "Measurement_System", ss["ms"]),
                  SortedList(UniqueValues(
                      WhereEq(FrameOfMode(ss["mode"], df_stocked, df_orderable),
                              "Measurement_System", ss["ms"]), "ShaftSize")))

\* if st.session_state["ms"] not in ms_union: ... (lines 193-194)
EnsureMs(ss, ms_union) ==
    IF ss["ms"] \in Range(ms_union) THEN ss
    ELSE SetKey(ss, "ms", IF ms_union # <<>> THEN ms_union[1] ELSE Imperial)

\* the sidebar and the result section of main, lines 177-304, on the two
\* loaded frames and the session state the run starts with
fsk_app_body(ss0, df_stocked, df_orderable) ==
    fsk_ms_widget(
        EnsureMs(SetDefault(SetDefault(ss0, "ms", Imperial), "mode", ModeOptions[1]),
                 SortedList(UniqueValues(df_stocked, "Measurement_System")
                            \cup UniqueValues(df_orderable, "Measurement_System"))),
        SortedList(UniqueValues(df_stocked, "Measurement_System")
                   \cup UniqueValues(df_orderable, "Measurement_System")),
        df_stocked, df_orderable)

\* a page with nothing but one st.error box, after st.stop()
ErrorPage(text, arg, calls) ==
    Page("stop", "", <<Msg(text, arg)>>, <<>>, NoWidgets, NoResult, calls)

\* a page showing an uncaught exception
ExceptionPage(exc, calls) == Page("exception", exc, <<>>, <<>>, NoWidgets, NoResult, calls)

\* the state a run leaves: session state, page, memo, read count
RunResult(ss, page, memo, count) == [ss |-> ss, out |-> page, cache |-> memo, reads |-> count]

\* main after both loads succeeded
fsk_app_loaded(b, l2, df_stocked, df_orderable) ==
    RunResult(b.ss,
              Page(b.status, b.exc, <<>>, b.warnings, b.widgets, b.result,
                   {CSV_STOCKED, CSV_STOCKED_OR_ORDERABLE}),
              MemoAfterCall(MemoAfterCall(l2.cache, CSV_STOCKED, df_stocked),
                            CSV_STOCKED_OR_ORDERABLE, df_orderable),
              l2.reads)

\* main from the second load on (line 172)
fsk_app_second_load(ss0, l1, l2) ==
    IF l2.outcome.status # "ok"
    THEN RunResult(ss0, ExceptionPage(l2.outcome.exc, {CSV_STOCKED, CSV_STOCKED_OR_ORDERABLE}),
                   l2.cache, l2.reads)
    ELSE fsk_app_loaded(fsk_app_body(ss0, l1.outcome.df, l2.outcome.df), l2,
                        l1.outcome.df, l2.outcome.df)

\* main from the first load on (line 171)
fsk_app_first_load(ss0, files, l1) ==
    IF l1.outcome.status # "ok"
    THEN RunResult(ss0, ExceptionPage(l1.outcome.exc, {CSV_STOCKED}), l1.cache, l1.reads)
    ELSE fsk_app_second_load(ss0, l1,
             CachedLoad("fsk_app", CSV_STOCKED_OR_ORDERABLE, files, l1.cache, l1.reads))

\* main of fsk_app.py: the two existence checks, the two cached loads, the body
fsk_app_main(ss0, files, memo, count) ==
    IF ~files[CSV_STOCKED].exists
    THEN RunResult(KeepRendered(ss0, NoWidgets),
                   ErrorPage("Missing data file", CSV_STOCKED, {}), memo, count)
    ELSE IF ~files[CSV_STOCKED_OR_ORDERABLE].exists
    THEN RunResult(KeepRendered(ss0, NoWidgets),
                   ErrorPage("Missing data file", CSV_STOCKED_OR_ORDERABLE, {}), memo, count)
    ELSE fsk_app_first_load(ss0, files, CachedLoad("fsk_app", CSV_STOCKED, files, memo, count))

-----------------------------------------------------------------------------
(* The single-file variants v9, v10, v13: main *)

DATA_FILE(script) ==
    IF script \in {"v8", "v9"} THEN "fsk_build_options_generated_v5_stocked_only.csv"
    ELSE "fsk_build_options_generated_v6_stocked_only_rich.csv"

\* a selectbox without a key: it keeps the user's choice for as long as its
\* label and options stay the same, and is otherwise a new widget showing
\* options[index]
Selectbox(ss, key, options, index, label) ==
    IF key \in DOMAIN ss /\ ss[key].options = options /\ ss[key].label = label
    THEN ss[key].value
    ELSE DefaultOption(key, options, index)

Widget(value, options, label) == [value |-> value, options |-> options, label |-> label]

\* how the body of v9, v10 or v13 ends; ws is the state of the widgets the run
\* created (after an uncaught exception nothing is cleaned up)
VariantEnded(ss0, status, exc, ws, warnings, result) ==
    [status |-> status, exc |-> exc,
     ss |-> IF status = "exception" THEN ws @@ ss0 ELSE ws,
     warnings |-> warnings,
     widgets |-> [k \in DOMAIN ws |-> ws[k].options], result |-> result]

\* the column of the first dropdown: System in v9, Measurement_System in v10, v13
AxisColumn(script) == IF script = "v9" THEN "System" ELSE "Measurement_System"

\* the options of the first dropdown
AxisOptions(script, df) ==
    IF script = "v10" THEN <<Imperial, Metric>>
    ELSE SortedList(UniqueValues(df, AxisColumn(script)))

\* the units of the selected rows: the first value of the column, in v9 and v13
\* after dropna()
UnitsOf(script, dsub, col) ==
    IF script = "v10" THEN <<dsub[1][col]>> ELSE PresentValues(dsub, col)

\* v9 puts the units into the label of the size dropdowns
UnitLabel(script, units) == IF script = "v9" THEN units[1].s ELSE <<>>

\* the candidates, the warning or the sorted result, the crossover suggestion
variant_results(script, ss0, ws, shaft_units, cand) ==
    IF cand = <<>>
    THEN VariantEnded(ss0, "stop", "", ws,
                      <<Msg(IF script = "v9"
                            THEN "No stocked-only build options found for this shaft/stern combination."
                            ELSE "No build options found for this shaft/stern combination.",
                            "")>>,
                      NoResult)
    ELSE VariantEnded(ss0, "done", "", ws, <<>>,
             [sel |-> [axis |-> ws.axis.value, shaft |-> ws.shaft.value,
                       stern |-> ws.stern.value],
              options |-> sort_values(cand),
              badges |-> <<>>,
              crossover |-> IF script = "v9"
                            THEN crossover_sku_for_shaft(ws.shaft.value.v, shaft_units[1].s)
                            ELSE crossover_label(ws.shaft.value.v, shaft_units[1].s)])

\* the candidate filter on the rows of the selected shaft
variant_candidates(script, ss0, ws, dshaft, shaft_units) ==
    variant_results(script, ss0, ws, shaft_units,
                    WhereEq(dshaft, "SternSize", ws.stern.value))

\* the stern dropdown
variant_stern_widget(script, ss0, ws, dsub, shaft_units, stern_units) ==
    IF stern_units[1].na
    THEN VariantEnded(ss0, "exception", "TypeError", ws, <<>>, NoResult)
    ELSE LET dshaft == WhereEq(dsub, "ShaftSize", ws.shaft.value)
             stern_vals == SortedList(UniqueValues(dshaft, "SternSize"))
             label == UnitLabel(script, stern_units)
         IN  variant_candidates(script, ss0,
                 SetKey(ws, "stern",
                        Widget(Selectbox(ss0, "stern", stern_vals, 0, label),
                               stern_vals, label)),
                 dshaft, shaft_units)

\* the units of the selected rows and the shaft dropdown
variant_shaft_widget(script, ss0, ws, dsub, shaft_units, stern_units) ==
    IF shaft_units = <<>> \/ stern_units = <<>>
    THEN VariantEnded(ss0, "exception", "IndexError", ws, <<>>, NoResult)
    ELSE IF shaft_units[1].na
    THEN VariantEnded(ss0, "exception", "TypeError", ws, <<>>, NoResult)
    ELSE LET shaft_vals == SortedList(UniqueValues(dsub, "ShaftSize"))
             label == UnitLabel(script, shaft_units)
         IN  variant_stern_widget(script, ss0,
                 SetKey(ws, "shaft",
                        Widget(Selectbox(ss0, "shaft", shaft_vals, 0, label),
                               shaft_vals, label)),
                 dsub, shaft_units, stern_units)

\* the rows of the selected system; v10 and v13 warn and stop when there are none
variant_units(script, ss0, ws, dsub) ==
    IF script # "v9" /\ dsub = <<>>
    THEN VariantEnded(ss0, "stop", "", ws,
                      <<Msg(IF script = "v10" THEN "No data for this measurement system."
                            ELSE "No data found in the CSV.", "")>>, NoResult)
    ELSE IF dsub = <<>>
    THEN VariantEnded(ss0, "exception", "IndexError", ws, <<>>, NoResult)
    ELSE variant_shaft_widget(script, ss0, ws, dsub,
                              UnitsOf(script, dsub, "ShaftUnits"),
                              UnitsOf(script, dsub, "SternUnits"))

\* the first dropdown
variant_axis_widget(script, ss0, df, axis_options) ==
    variant_units(script, ss0,
        [axis |-> Widget(Selectbox(ss0, "axis", axis_options,
                                   IF script = "v13" THEN safe_index(axis_options, Imperial)
                                   ELSE 0, <<>>),
                         axis_options, <<>>)],
        WhereEq(df, AxisColumn(script),
                Selectbox(ss0, "axis", axis_options,
                          IF script = "v13" THEN safe_index(axis_options, Imperial) ELSE 0,
                          <<>>)))

\* the sidebar and the result section of main in v9, v10 and v13, on the
\* loaded frame and the widget state the run starts with
variant_body(script, ss0, df) == variant_axis_widget(script, ss0, df, AxisOptions(script, df))

\* main after the load succeeded and the frame is ready
variant_loaded(path, l, frame, b) ==
    RunResult(b.ss, Page(b.status, b.exc, <<>>, b.warnings, b.widgets, b.result, {path}),
              MemoAfterCall(l.cache, path, frame), l.reads)

\* main after the cached load inside try/except; v10 then adds the
\* Measurement_System column to the frame (line 61)
variant_after_load(script, ss0, path, l) ==
    IF l.outcome.status # "ok"
    THEN RunResult(NoWidgets, ErrorPage("Could not load CSV", l.outcome.exc, {path}),
                   l.cache, l.reads)
    ELSE IF script = "v10" /\ MapRaises(l.outcome.df)
    THEN RunResult(ss0, ExceptionPage("TypeError", {path}), l.cache, l.reads)
    ELSE IF script = "v10"
    THEN variant_loaded(path, l, WithMeasurementSystem(l.outcome.df),
                        variant_body(script, ss0, WithMeasurementSystem(l.outcome.df)))
    ELSE variant_loaded(path, l, l.outcome.df, variant_body(script, ss0, l.outcome.df))

\* main of v9, v10, v13: the existence check, the cached load inside
\* try/except, in v10 the Measurement_System column added to the frame, the body
variant_main(script, ss0, files, memo, count) ==
    IF ~files[DATA_FILE(script)].exists
    THEN RunResult(NoWidgets, ErrorPage("Missing data file", DATA_FILE(script), {}),
                   memo, count)
    ELSE variant_after_load(script, ss0, DATA_FILE(script),
                            CachedLoad(script, DATA_FILE(script), files, memo, count))

-----------------------------------------------------------------------------
(* fsk_app_v8_minimal_warehouse.py: the script *)

V8_DISPLAY_COLS ==
    {"Priority", "FSA_SKU", "Hose_SKU", "Clamp_Backend_SKU",
     "Clamp_Backend_Qty_Per_End", "Clamp_Stern_SKU", "Clamp_Stern_Qty_Per_End",
     "Total_Clamps_Per_Kit"}

V8_ADV_COLS == {"US_Recommended", "Stretch_Backend_In", "Stretch_Stern_In", "FSK_SKU"}

\* the columns of a frame of v8 (every row has them all)
V8Columns(df) == IF df = <<>> THEN V8_DISPLAY_COLS ELSE DOMAIN df[1]

\* lines 39-87: the warning, or the table sorted by Priority, the crossover
\* suggestion and the Advanced table
v8_tables(l, columns, ws, filtered) ==
    LET path == DATA_FILE("v8")
        widgets == [k \in DOMAIN ws |-> ws[k].options]
        shown == [sel |-> [axis |-> ws.axis.value, shaft |-> ws.shaft.value,
                           stern |-> ws.stern.value],
                  options |-> StableSort(filtered, "Priority"), badges |-> <<>>,
                  crossover |-> crossover_v8(ws.axis.value.s, ws.shaft.value.v)]
    IN  IF filtered = <<>>
        THEN RunResult(ws,
                 Page("done", "",  <<>>,
                      <<Msg("No build options available for this combination.", "")>>,
                      widgets, NoResult, {path}),
                 l.cache, l.reads)
        ELSE IF ~(V8_DISPLAY_COLS \subseteq columns)
        THEN RunResult(ws, Page("exception", "KeyError", <<>>, <<>>, widgets, NoResult, {path}),
                       l.cache, l.reads)
        ELSE IF V8_ADV_COLS \cap columns # {}
        \* filtered[adv_existing] has no Priority column to sort by
        THEN RunResult(ws, Page("exception", "KeyError", <<>>, <<>>, widgets, shown, {path}),
                       l.cache, l.reads)
        ELSE RunResult(ws, Page("done", "", <<>>, <<>>, widgets, shown, {path}),
                       l.cache, l.reads)

\* lines 28-37: the stern dropdown and the filtered rows
v8_stern(ss0, l, columns, ws, dshaft, stern_values) ==
    v8_tables(l, columns,
              SetKey(ws, "stern",
                     Widget(Selectbox(ss0, "stern", stern_values, 0, <<>>), stern_values, <<>>)),
              WhereEq(dshaft, "stern_Value", Selectbox(ss0, "stern", stern_values, 0, <<>>)))

\* lines 23-26: the shaft dropdown
v8_shaft(ss0, l, columns, ws, dsys, shaft_values) ==
    v8_stern(ss0, l, columns,
             SetKey(ws, "shaft",
                    Widget(Selectbox(ss0, "shaft", shaft_values, 0, <<>>), shaft_values, <<>>)),
             WhereEq(dsys, "shaft_Value", Selectbox(ss0, "shaft", shaft_values, 0, <<>>)),
             SortedList(UniqueValues(
                 WhereEq(dsys, "shaft_Value", Selectbox(ss0, "shaft", shaft_values, 0, <<>>)),
                 "stern_Value")))

\* lines 19-21: the system dropdown
v8_system(ss0, l, df, systems) ==
    v8_shaft(ss0, l, V8Columns(df),
             [axis |-> Widget(Selectbox(ss0, "axis", systems, 0, <<>>), systems, <<>>)],
             WhereEq(df, "measurement_System", Selectbox(ss0, "axis", systems, 0, <<>>)),
             SortedList(UniqueValues(
                 WhereEq(df, "measurement_System", Selectbox(ss0, "axis", systems, 0, <<>>)),
                 "shaft_Value")))

\* the script after load_data() at line 14
v8_after_load(ss0, l) ==
    IF l.outcome.status # "ok"
    THEN RunResult(ss0, ExceptionPage(l.outcome.exc, {DATA_FILE("v8")}), l.cache, l.reads)
    ELSE v8_system(ss0, l, l.outcome.df,
                   SortedList(UniqueValues(l.outcome.df, "measurement_System")))

\* the script of v8, run top to bottom: the cached load without any check,
\* the three dropdowns, the table, the crossover suggestion, the Advanced table
v8_main(ss0, files, memo, count) ==
    v8_after_load(ss0, CachedLoad("v8", DATA_FILE("v8"), files, memo, count))

-----------------------------------------------------------------------------
(* The scripts and their runs *)

Scripts == {"fsk_app", "v8", "v9", "v10", "v13"}

Paths(script) ==
    IF script = "fsk_app" THEN {CSV_STOCKED, CSV_STOCKED_OR_ORDERABLE}
    ELSE {DATA_FILE(script)}

\* one run of the script, top to bottom
Main(script, ss0, files, memo, count) ==
    IF script = "fsk_app" THEN fsk_app_main(ss0, files, memo, count)
    ELSE IF script = "v8" THEN v8_main(ss0, files, memo, count)
    ELSE variant_main(script, ss0, files, memo, count)

-----------------------------------------------------------------------------
(* Data files of the scripts *)

\* rows in the data files of one working directory, at most
MaxRows == 3

\* a clean source row of the given (units, shaft, stern) and option
\* (priority, flag, FSA template, hose code, backend clamp, stern clamp)
AppRow(key, option) ==
    [BaseRow EXCEPT !["System"] = IF key[1] = <<"mm">> THEN <<"B">> ELSE <<"A">>,
                    !["ShaftUnits"] = key[1], !["SternUnits"] = key[1],
                    !["ShaftSize"] = key[2], !["SternSize"] = key[3],
                    !["Priority"] = option[1], !["Is_US_Recommended"] = option[2],
                    !["FSA_Template"] = option[3], !["Hose_Code"] = option[4],
                    !["Clamp1_Code"] = option[5], !["Clamp2_Code"] = option[6]]

RowKeys ==
    {<< <<"in">>, <<"2.75">>, <<"3.5">> >>, << <<"in">>, <<"2.75">>, <<"4.0">> >>,
     << <<"in">>, <<"3.0">>, <<"3.5">> >>, << <<"mm">>, <<"70">>, <<"90">> >>}

\* the option every size has
PlainOption == << <<"1">>, <<"true">>, <<"F1">>, <<"H1">>, <<"CL1">>, <<"CL2">> >>

RowOptions ==
    {<< <<"1">>, <<"true">>, <<"F2">>, <<"H1">>, <<"CL1">>, <<"CL2">> >>,
     PlainOption,
     << <<"1">>, <<"no">>, <<"F1">>, <<"H2">>, <<"CL2">>, <<"CL3">> >>,
     << <<"2">>, <<"true">>, <<"F1">>, <<"H1">>, <<"CL1">>, <<"CL2">> >>}

\* the rows of the data files: every option at one size, one option at every size
AppRowPool ==
    {AppRow(<< <<"in">>, <<"2.75">>, <<"3.5">> >>, o) : o \in RowOptions}
    \cup {AppRow(k, PlainOption) : k \in RowKeys}

File(rows) == [exists |-> TRUE, source |-> [header |-> FullHeader, rows |-> rows]]
Absent == [exists |-> FALSE, source |-> [header |-> <<>>, rows |-> <<>>]]

\* the same row in the columns of the v8 data file
V8Row(r) ==
    [measurement_System |-> IF r["ShaftUnits"] = <<"mm">> THEN <<"Metric">> ELSE <<"Imperial">>,
     shaft_Value |-> r["ShaftSize"], stern_Value |-> r["SternSize"],
     Priority |-> r["Priority"], FSA_SKU |-> r["FSA_Template"],
     Hose_SKU |-> r["Hose_Code"], Clamp_Backend_SKU |-> r["Clamp1_Code"],
     Clamp_Backend_Qty_Per_End |-> r["Clamp1_Qty"],
     Clamp_Stern_SKU |-> r["Clamp2_Code"],
     Clamp_Stern_Qty_Per_End |-> r["Clamp2_Qty"],
     Total_Clamps_Per_Kit |-> <<"7">>,
     US_Recommended |-> r["Is_US_Recommended"], FSK_SKU |-> <<"K1">>]

V8Header(advanced) ==
    <<<<"measurement_System">>, <<"shaft_Value">>, <<"stern_Value">>, <<"Priority">>,
      <<"FSA_SKU">>, <<"Hose_SKU">>, <<"Clamp_Backend_SKU">>,
      <<"Clamp_Backend_Qty_Per_End">>, <<"Clamp_Stern_SKU">>,
      <<"Clamp_Stern_Qty_Per_End">>, <<"Total_Clamps_Per_Kit">>>>
    \o (IF advanced THEN <<<<"US_Recommended">>, <<"FSK_SKU">>>> ELSE <<>>)

V8File(rows, advanced) ==
    [exists |-> TRUE,
     source |-> [header |-> V8Header(advanced),
                 rows |-> [i \in DOMAIN rows |-> V8Row(rows[i])]]]

\* the working directories a script may be started in: every data file there
WorkingDirs(script, pool, n) ==
    IF script = "fsk_app"
    THEN UNION {{[p \in Paths(script) |-> IF p = CSV_STOCKED THEN File(a) ELSE File(b)] :
                    b \in SeqsUpTo(pool, n - Len(a))} : a \in SeqsUpTo(pool, n)}
    ELSE IF script = "v8"
    THEN {[p \in Paths(script) |-> V8File(rows, adv)] :
            rows \in SeqsUpTo(pool, n), adv \in BOOLEAN}
    ELSE {[p \in Paths(script) |-> File(rows)] : rows \in SeqsUpTo(pool, n)}

\* the working directories of the scripts specification
AppWorkingDirs == [script \in Scripts |-> WorkingDirs(script, AppRowPool, MaxRows)]

NoPage == Page("init", "", <<>>, <<>>, NoWidgets, NoResult, {})

NoFiles == <<>>
NoSession == <<>>
NoOutput == <<>>

-----------------------------------------------------------------------------
(* Specification of the crossover-kit rule: one query, answered by one of   *)
(* the three implementations                                                *)

InitCrossover ==
    /\ \E u \in UnitStrings : \E s \in ShaftSizesOf(u) :
          cx = [shaft |-> s, units |-> u,
                system |-> IF u = <<"in">> THEN <<"Imperial">> ELSE <<"Metric">>,
                by |-> "", kit |-> ""]
    /\ csv = NoSource /\ ld = NotLoaded
    /\ app = "" /\ fs = NoFiles /\ cache = NoFiles
    /\ session_state = NoSession /\ out = NoOutput /\ reads = NoFiles

CrossoverLabel ==
    /\ cx.by = ""
    /\ cx' = [cx EXCEPT !.by = "crossover_label",
                        !.kit = crossover_label(cx.shaft, cx.units)]
    /\ UNCHANGED <<csv, ld, app, fs, cache, session_state, out, reads>>

CrossoverSkuForShaft ==
    /\ cx.by = ""
    /\ cx' = [cx EXCEPT !.by = "crossover_sku_for_shaft",
                        !.kit = crossover_sku_for_shaft(cx.shaft, cx.units)]
    /\ UNCHANGED <<csv, ld, app, fs, cache, session_state, out, reads>>

CrossoverV8 ==
    /\ cx.by = ""
    /\ cx' = [cx EXCEPT !.by = "v8", !.kit = crossover_v8(cx.system, cx.shaft)]
    /\ UNCHANGED <<csv, ld, app, fs, cache, session_state, out, reads>>

NextCrossover == CrossoverLabel \/ CrossoverSkuForShaft \/ CrossoverV8

SpecCrossover == InitCrossover /\ [][NextCrossover]_vars

-----------------------------------------------------------------------------
(* Specification of the loader: one source, loaded once                     *)

InitLoad ==
    /\ csv \in LoadSources
    /\ ld = NotLoaded
    /\ cx = NoQuery
    /\ app = "" /\ fs = NoFiles /\ cache = NoFiles
    /\ session_state = NoSession /\ out = NoOutput /\ reads = NoFiles

Load ==
    /\ ld.status = "none"
    /\ ld' = load_csv(csv.variant, csv)
    /\ UNCHANGED <<cx, csv, app, fs, cache, session_state, out, reads>>

NextLoad == Load

SpecLoad == InitLoad /\ [][NextLoad]_vars

-----------------------------------------------------------------------------
(* Specification of the scripts: one browser session on one working         *)
(* directory whose files stay as they are                                   *)

Init ==
    /\ app \in Scripts
    /\ fs \in AppWorkingDirs[app]
    /\ cache = [p \in Paths(app) |-> NotLoaded]
    /\ reads = [p \in Paths(app) |-> 0]
    /\ session_state = NoWidgets
    /\ out = NoPage
    /\ cx = NoQuery /\ csv = NoSource /\ ld = NotLoaded

\* the state after a run
After(r) ==
    /\ session_state' = r.ss
    /\ out' = r.out
    /\ cache' = r.cache
    /\ reads' = r.reads
    /\ UNCHANGED <<app, fs, cx, csv, ld>>

\* the script runs top to bottom on session state ss
Run(ss) == After(Main(app, ss, fs, cache, reads))

\* the key of the measurement-system (or system) dropdown
AxisKeyOf(script) == IF script = "fsk_app" THEN "ms" ELSE "axis"

\* the value a widget shows
Current(key) ==
    IF app = "fsk_app" THEN session_state[key] ELSE session_state[key].value

\* the session state once the user has set widget `key` to `value`
UserSets(key, value) ==
    IF app = "fsk_app" THEN SetKey(session_state, key, value)
    ELSE [session_state EXCEPT ![key].value = value]

\* the user may change a widget the last run created, to one of its options
CanChange(key, value) ==
    /\ key \in DOMAIN out.widgets
    /\ key \in DOMAIN session_state
    /\ value \in Range(out.widgets[key])
    /\ value # Current(key)

\* the first run of the session
Open == out.status = "init" /\ Run(session_state)

\* a rerun with no selection changed
Rerun == out.status # "init" /\ Run(session_state)

ChangeMode ==
    \E m \in Range(ModeOptions) :
        app = "fsk_app" /\ CanChange("mode", m) /\ Run(UserSets("mode", m))

ChangeAxis ==
    \E v \in {Imperial, Metric, Str(<<"A">>), Str(<<"B">>)} :
        CanChange(AxisKeyOf(app), v) /\ Run(UserSets(AxisKeyOf(app), v))

ChangeShaft ==
    \E i \in 1..MaxRows :
        /\ "shaft" \in DOMAIN out.widgets
        /\ i <= Len(out.widgets["shaft"])
        /\ CanChange("shaft", out.widgets["shaft"][i])
        /\ Run(UserSets("shaft", out.widgets["shaft"][i]))

ChangeStern ==
    \E i \in 1..MaxRows :
        /\ "stern" \in DOMAIN out.widgets
        /\ i <= Len(out.widgets["stern"])
        /\ CanChange("stern", out.widgets["stern"][i])
        /\ Run(UserSets("stern", out.widgets["stern"][i]))

Next == Open \/ Rerun \/ ChangeMode \/ ChangeAxis \/ ChangeShaft \/ ChangeStern

Spec == Init /\ [][Next]_vars

-----------------------------------------------------------------------------
(* Specification of the scripts on a working directory whose files are      *)
(* written and deleted between the runs of one session                      *)

\* what a data file of the script may hold: no row, one row of either
\* measurement system, or a header without the Priority column
Contents(script) ==
    LET inch == AppRow(<< <<"in">>, <<"2.75">>, <<"3.5">> >>, PlainOption)
        metric == AppRow(<< <<"mm">>, <<"70">>, <<"90">> >>, PlainOption)
    IN  IF script = "v8"
        THEN {V8File(rows, FALSE) : rows \in {<<>>, <<inch>>, <<metric>>}}
        ELSE {File(rows) : rows \in {<<>>, <<inch>>, <<metric>>}}
             \cup {[exists |-> TRUE,
                    source |-> [header |-> HeaderOf({"Priority"}, ""), rows |-> <<>>]]}

InitFiles ==
    /\ app \in Scripts
    /\ fs \in [Paths(app) -> Contents(app) \cup {Absent}]
    /\ cache = [p \in Paths(app) |-> NotLoaded]
    /\ reads = [p \in Paths(app) |-> 0]
    /\ session_state = NoWidgets
    /\ out = NoPage
    /\ cx = NoQuery /\ csv = NoSource /\ ld = NotLoaded

\* somebody writes a data file of the script: new content at the same path
WriteFile ==
    \E p \in Paths(app) : \E c \in Contents(app) :
        /\ fs[p] # c
        /\ fs' = [fs EXCEPT ![p] = c]
        /\ UNCHANGED <<app, cache, session_state, out, reads, cx, csv, ld>>

\* somebody deletes a data file of the script
DeleteFile ==
    \E p \in Paths(app) :
        /\ fs[p].exists
        /\ fs' = [fs EXCEPT ![p] = Absent]
        /\ UNCHANGED <<app, cache, session_state, out, reads, cx, csv, ld>>

NextFiles == Open \/ Rerun \/ WriteFile \/ DeleteFile

SpecFiles == InitFiles /\ [][NextFiles]_vars

-----------------------------------------------------------------------------
(* Claims about the crossover-kit rule *)

\* C4: the suggestion is the small kit for a shaft of 2.75 in and for a shaft
\* of 70 mm, and the large kit for a shaft of 3.0 in, whichever of the three
\* implementations answers
C4_KitAtStatedSizes ==
    cx.by # "" =>
        /\ (cx.units = <<"in">> /\ cx.shaft = 2750) => cx.kit \in SmallKit
        /\ (cx.units = <<"mm">> /\ cx.shaft = 70000) => cx.kit \in SmallKit
        /\ (cx.units = <<"in">> /\ cx.shaft = 3000) => cx.kit \in LargeKit

-----------------------------------------------------------------------------
(* Claims about the loader *)

\* a mandatory text field counts as present when it is a non-empty string
PresentText(x) == ~x.na /\ x.s # <<>>
PresentNumber(x) == x.k # "nan"

MandatoryText(variant) == dropna_subset(variant) \cap text_cols(variant)
MandatoryNumbers(variant) == dropna_subset(variant) \cap num_cols(variant)

\* C2: for a source with all required columns, no returned record misses a
\* mandatory field (an empty or whitespace-only text counting as missing), and
\* every returned priority is an integer
C2_NoRecordMissingMandatory ==
    ld.status = "ok" =>
        \A i \in DOMAIN ld.df :
            /\ \A c \in MandatoryText(csv.variant) : PresentText(ld.df[i][c])
            /\ \A c \in MandatoryNumbers(csv.variant) : PresentNumber(ld.df[i][c])
            /\ ld.df[i]["Priority"].k = "num"
            /\ ld.df[i]["Priority"].v % 1000 = 0

\* the required columns no header of the source names, blanks around a header
\* not counting
AbsentRequired ==
    {c \in Range(required(csv.variant)) :
        \A i \in DOMAIN csv.header : Strip(csv.header[i]) # <<c>>}

\* C3: a source lacking required columns makes load fail with an error naming
\* exactly those columns and return no records; a source with all of them
\* raises no schema error
C3_SchemaErrorNamesMissing ==
    ld.status # "none" =>
        /\ AbsentRequired # {} =>
              /\ ld.status = "raise" /\ ld.exc = "KeyError"
              /\ Range(ld.missing) = AbsentRequired
              /\ Len(ld.missing) = Cardinality(AbsentRequired)
              /\ ld.df = <<>>
        /\ AbsentRequired = {} => ld.exc # "KeyError" /\ ld.missing = <<>>

C3_Witness ==
    /\ ld.status = "raise" /\ ld.exc = "KeyError" /\ Len(ld.missing) = 2
    /\ \E i \in DOMAIN csv.header :
          /\ Len(csv.header[i]) > 1
          /\ Strip(csv.header[i]) \in {<<c>> : c \in Range(required(csv.variant))}

\* the source rows that have every mandatory field, read as the loader reads
\* a cell: a numeric cell is present when it is a numeral or an infinity, a
\* text cell when it is not one of the missing-value strings
RowUsable(variant, raw) ==
    /\ \A c \in MandatoryNumbers(variant) : to_numeric(raw[c]) # NaN
    /\ \A c \in MandatoryText(variant) : raw[c] \notin NA_VALUES

\* C6: for a source with all required columns load completes without raising
\* whatever the cells hold, and returns exactly the rows that miss no
\* mandatory field, in source order
C6_LoadNeverRaisesOnCells ==
    (ld.status # "none" /\ AbsentRequired = {}) =>
        /\ ld.status = "ok"
        /\ Len(ld.df) = Len(SelectSeq(csv.rows, LAMBDA r : RowUsable(csv.variant, r)))

-----------------------------------------------------------------------------
(* Claims about the selection made by a run of a script *)

\* the records the loader returns for the file at `path` as it is now
DatasetAt(path) == Loader(app, fs[path].source).df

\* the availability mode of the last run (only fsk_app.py has the toggle)
ModeOf ==
    IF "mode" \in DOMAIN session_state THEN session_state["mode"] ELSE ModeOptions[1]

\* the dataset the last run queried: in fsk_app.py the stocked one in mode
\* "Stocked by us" and the stocked-or-orderable one otherwise; in v10 the
\* records with their measurement system
Dataset ==
    IF app = "fsk_app"
    THEN IF ModeOf = "Stocked by us" THEN DatasetAt(CSV_STOCKED)
         ELSE DatasetAt(CSV_STOCKED_OR_ORDERABLE)
    ELSE IF app = "v10" THEN WithMeasurementSystem(DatasetAt(DATA_FILE(app)))
    ELSE DatasetAt(DATA_FILE(app))

\* the columns of the three selections
AxisColumnOf(script) ==
    IF script = "v8" THEN "measurement_System"
    ELSE IF script = "v9" THEN "System" ELSE "Measurement_System"
ShaftColumnOf(script) == IF script = "v8" THEN "shaft_Value" ELSE "ShaftSize"
SternColumnOf(script) == IF script = "v8" THEN "stern_Value" ELSE "SternSize"

\* the value the dropdown `key` shows after the last run; nothing when the run
\* did not get to the dropdown or the dropdown had no option
Selected(key) ==
    IF key \in DOMAIN session_state THEN Current(key) ELSE NoneOf(key)

\* the rows of the dataset with the selected system, shaft size and stern size
Matching ==
    SelectSeq(Dataset, LAMBDA r :
        /\ r[AxisColumnOf(app)] = Selected(AxisKeyOf(app))
        /\ r[ShaftColumnOf(app)] = Selected("shaft")
        /\ r[SternColumnOf(app)] = Selected("stern"))

Count(s, r) == Cardinality({i \in DOMAIN s : s[i] = r})

\* the same rows, each as often in a as in b
SameRows(a, b) ==
    /\ Len(a) = Len(b)
    /\ \A r \in Range(a) \cup Range(b) : Count(a, r) = Count(b, r)

\* lexicographic <= on tuples of numbers of one length
LexLeq(a, b) ==
    \/ a = b
    \/ \E k \in DOMAIN a : a[k] < b[k] /\ \A j \in 1..(k - 1) : a[j] = b[j]

\* (priority, not recommended, FSA template, hose code)
RankKey4(r) ==
    <<r["Priority"].v, IF r["Is_US_Recommended"] THEN 0 ELSE 1,
      TextRank(r["FSA_Template"].s), TextRank(r["Hose_Code"].s)>>

\* (priority, not recommended)
RankKey2(r) == <<r["Priority"].v, IF r["Is_US_Recommended"] THEN 0 ELSE 1>>

\* C1 as the specification states it: in the ranked list of fsk_app.py, v9,
\* v10 and v13 a row displayed before another has the lexicographically
\* smaller or equal (priority, not recommended, FSA template, hose code)
C1_RankedByFourKeys ==
    app \in Loaders =>
        \A i, j \in DOMAIN out.options :
            i < j => LexLeq(RankKey4(out.options[i]), RankKey4(out.options[j]))

\* C1 as the code has it: a row displayed before another has the smaller or
\* equal (priority, not recommended), and rows that tie on both are displayed
\* in the order they have in the dataset
C1_RankedByPriorityThenFlag ==
    app \in Loaders =>
        /\ \A i, j \in DOMAIN out.options :
              i < j => LexLeq(RankKey2(out.options[i]), RankKey2(out.options[j]))
        /\ \A r \in Range(out.options) :
              SelectSeq(out.options, LAMBDA x : RankKey2(x) = RankKey2(r))
                = SelectSeq(Matching, LAMBDA x : RankKey2(x) = RankKey2(r))

\* a ranked list the sort has reordered, in which two rows that tie on
\* priority and flag are displayed with the greater FSA template first
C1_Witness ==
    /\ app \in Loaders
    /\ out.options # Matching
    /\ \E i, j \in DOMAIN out.options :
          /\ i < j
          /\ RankKey2(out.options[i]) = RankKey2(out.options[j])
          /\ TextRank(out.options[i]["FSA_Template"].s)
               > TextRank(out.options[j]["FSA_Template"].s)

\* C5: the displayed options are exactly the rows of the dataset chosen by
\* the availability mode that have the selected measurement system (or
\* system), shaft size and stern size, each displayed once
C5_ResultIsExactMatch ==
    out.status # "init" => SameRows(out.options, Matching)

\* fsk_app.py in mode "Stocked + Can order" on two different datasets, with
\* options displayed and rows of the dataset left out
C5_Witness ==
    /\ app = "fsk_app" /\ out.status = "done"
    /\ ModeOf = "Stocked + Can order"
    /\ DatasetAt(CSV_STOCKED) # DatasetAt(CSV_STOCKED_OR_ORDERABLE)
    /\ Len(out.options) >= 2
    /\ Len(out.options) < Len(Dataset)

\* C7: when no row of the dataset has the selected system, shaft size and
\* stern size, the run ends without an exception, with exactly one warning
\* and with no option, crossover suggestion or other result displayed
C7_EmptyMatchIsOneWarning ==
    (out.status # "init" /\ Matching = <<>>) =>
        /\ out.status \in {"done", "stop"}
        /\ Len(out.warnings) = 1
        /\ out.errors = <<>>
        /\ out.options = <<>> /\ out.badges = <<>> /\ out.crossover = ""

\* the run the script makes from the current state when nothing is changed
NextRun == Main(app, session_state, fs, cache, reads)

\* C8: after any sequence of selections the memoized datasets are the
\* records as loaded, and repeating the last query displays the same options
\* in the same order and leaves the memoized datasets as they are
C8_QueriesIdempotentNoMutation ==
    out.status # "init" =>
        /\ \A p \in Paths(app) : cache[p].status = "ok" => cache[p].df = DatasetAt(p)
        /\ NextRun.out.options = out.options
        /\ NextRun.out.sel = out.sel
        /\ NextRun.cache = cache

\* v10, which adds a column to the frame its loader returned, after the shaft
\* selection was changed, with several options displayed
C8_Witness ==
    /\ app = "v10" /\ out.status = "done"
    /\ Len(out.options) >= 2
    /\ Len(out.widgets["shaft"]) >= 2
    /\ out.sel.shaft # out.widgets["shaft"][1]

-----------------------------------------------------------------------------
(* Claims about the data files *)

\* C9: a load of a source returns the records parsed from the content the
\* source has now, also after the content at its path has changed; and a load
\* of a source already loaded with this content does not read the file again
C9_LoadServesCurrentContent ==
    \A p \in Paths(app) :
        fs[p].exists =>
            LET l == CachedLoad(app, p, fs, cache, reads)
            IN  /\ l.outcome.status = "ok" => l.outcome = Loader(app, fs[p].source)
                /\ cache[p] = Loader(app, fs[p].source) => l.reads = reads

\* C10: with a data file missing the run halts with an error message that
\* has the path of a missing file, calls no load of a missing file, displays
\* no option, and no exception escapes
C10_MissingFileHalts ==
    (\E p \in Paths(app) : ~fs[p].exists) =>
        /\ NextRun.out.status = "stop"
        /\ \E i \in DOMAIN NextRun.out.errors :
              /\ NextRun.out.errors[i].text = "Missing data file"
              /\ NextRun.out.errors[i].arg \in {p \in Paths(app) : ~fs[p].exists}
        /\ \A p \in Paths(app) : ~fs[p].exists => p \notin NextRun.out.calls
        /\ NextRun.out.options = <<>>

-----------------------------------------------------------------------------
(* Claims about the stocked / orderable tags of fsk_app.py *)

\* the codes the stocked dataset has in column col
StockedCodes(col) ==
    {DatasetAt(CSV_STOCKED)[i][col] : i \in
        {j \in DOMAIN DatasetAt(CSV_STOCKED) : ~DatasetAt(CSV_STOCKED)[j][col].na}}

\* the tag of a code, given the stocked codes of its kind
TagOf(code, codes) == IF code \in codes THEN "Stocked" ELSE "Orderable"

\* C11: in mode "Stocked + Can order" the FSA template, hose code, backend
\* clamp and stern clamp of every displayed option are tagged Stocked exactly
\* when the code is among the FSA templates, the hose codes, resp. the codes
\* of both clamp columns of the stocked dataset, and Orderable otherwise; in
\* mode "Stocked by us" no tag is shown
C11_TagsByStockedMembership ==
    (app = "fsk_app" /\ out.status = "done") =>
        IF ModeOf = "Stocked by us" THEN out.badges = <<>>
        ELSE /\ Len(out.badges) = Len(out.options)
             /\ \A i \in DOMAIN out.options :
                  /\ out.badges[i].FSA
                       = TagOf(out.options[i]["FSA_Template"], StockedCodes("FSA_Template"))
                  /\ out.badges[i].Hose
                       = TagOf(out.options[i]["Hose_Code"], StockedCodes("Hose_Code"))
                  /\ out.badges[i].ClampBackend
                       = TagOf(out.options[i]["Clamp1_Code"],
                               StockedCodes("Clamp1_Code") \cup StockedCodes("Clamp2_Code"))
                  /\ out.badges[i].ClampStern
                       = TagOf(out.options[i]["Clamp2_Code"],
                               StockedCodes("Clamp1_Code") \cup StockedCodes("Clamp2_Code"))

\* an option displayed in mode "Stocked + Can order" whose backend clamp is
\* stocked only as a stern clamp, whose stern clamp is not stocked, and whose
\* hose is not stocked
C11_Witness ==
    /\ app = "fsk_app" /\ out.status = "done" /\ ModeOf = "Stocked + Can order"
    /\ \E i \in DOMAIN out.badges :
          /\ out.badges[i].ClampBackend = "Stocked"
          /\ out.options[i]["Clamp1_Code"] \notin StockedCodes("Clamp1_Code")
          /\ out.badges[i].ClampStern = "Orderable"
          /\ out.badges[i].Hose = "Orderable"
          /\ out.badges[i].FSA = "Stocked"

-----------------------------------------------------------------------------
(* Claims about the recommendation flag *)

\* the text of a cell in lower case
LowerText(cell) == [k \in DOMAIN cell |-> Lower(cell[k])]

\* C12: for every source row load sets the recommendation flag to true exactly
\* when the text of the cell is, whatever its case, one of "true", "1", "yes",
\* "y"; every other cell, an empty one too, gives false, and the flag is never
\* missing (stated for the loads that drop no row, where row i of the result
\* is row i of the source)
C12_FlagIffTruthyText ==
    (ld.status = "ok" /\ Len(ld.df) = Len(csv.rows)) =>
        \A i \in DOMAIN ld.df :
            /\ ld.df[i]["Is_US_Recommended"] \in BOOLEAN
            /\ ld.df[i]["Is_US_Recommended"]
                 = (LowerText(csv.rows[i]["Is_US_Recommended"]) \in TRUTHY)

(* Claims about the displayed option list *)

\* whether a displayed row is US-recommended: the flag load_csv computed, or
\* in v8, which keeps the column as read, a truthy US_Recommended cell
Recommended(r) ==
    IF "Is_US_Recommended" \in DOMAIN r THEN r["Is_US_Recommended"]
    ELSE IF "US_Recommended" \in DOMAIN r
    THEN ~r["US_Recommended"].na /\ LowerText(r["US_Recommended"].s) \in TRUTHY
    ELSE FALSE

\* C13: in the displayed option list (Option i is the i-th displayed row)
\* the priority never decreases from Option 1 to Option n, among options of
\* equal priority no non-recommended option precedes a US-recommended one,
\* and Option 1 has the least priority code of the matching rows
C13_OptionsInRankOrder ==
    out.options # <<>> =>
        /\ \A i, j \in DOMAIN out.options :
              i < j => out.options[i]["Priority"].v <= out.options[j]["Priority"].v
        /\ \A i, j \in DOMAIN out.options :
              (i < j /\ out.options[i]["Priority"].v = out.options[j]["Priority"].v)
                  => ~(~Recommended(out.options[i]) /\ Recommended(out.options[j]))
        /\ \A r \in Range(Matching) :
              out.options[1]["Priority"].v <= r["Priority"].v

(* Claims about the session state of fsk_app.py *)

\* the run of fsk_app.py got to the candidate filter: both files were loaded
\* and the stern dropdown was created
FilterEvaluated == app = "fsk_app" /\ "stern" \in DOMAIN out.widgets

\* C14: in fsk_app.py, whatever reruns and changes of mode, measurement
\* system, shaft and stern came before, a run that gets to the candidate
\* filter finds the selected shaft and stern in the dataset of the mode for
\* the selected measurement system: the run ends with options displayed and
\* with no warning, and neither second-pass fallback assigns a selection
C14_CandidatesNeverEmpty ==
    FilterEvaluated =>
        /\ out.status = "done" /\ out.warnings = <<>>
        /\ out.options # <<>>
        /\ Matching # <<>>
        /\ out.sel = [axis |-> Selected("ms"), shaft |-> Selected("shaft"),
                      stern |-> Selected("stern")]

\* a run in mode "Stocked + Can order" that got to the candidate filter with a
\* shaft size the stocked dataset does not have for the measurement system
C14_Witness ==
    /\ FilterEvaluated /\ out.status = "done"
    /\ ModeOf = "Stocked + Can order"
    /\ WhereEq(DatasetAt(CSV_STOCKED), "Measurement_System", Selected("ms")) # <<>>
    /\ Selected("shaft") \notin
          UniqueValues(WhereEq(DatasetAt(CSV_STOCKED), "Measurement_System",
                               Selected("ms")), "ShaftSize")

\* the rows of the dataset of the mode stored in ss that have the measurement
\* system stored in ss
SubsetOf(ss) ==
    WhereEq(IF ss["mode"] = "Stocked by us" THEN DatasetAt(CSV_STOCKED)
            ELSE DatasetAt(CSV_STOCKED_OR_ORDERABLE),
            "Measurement_System", ss["ms"])

\* the least of a non-empty set of sizes
Smallest(S) == CHOOSE v \in S : \A w \in S : v.v <= w.v

\* the stored value if it is among S, the least of S otherwise
KeptOrSmallest(stored, S) == IF stored \in S THEN stored ELSE Smallest(S)

\* the four selections are stored
AllStored(ss) == {"mode", "ms", "shaft", "stern"} \subseteq DOMAIN ss

\* C15: in fsk_app.py, on a step that changes the availability mode or the
\* measurement system and whose run creates the shaft and stern dropdowns,
\* the stored shaft size stays as it was if it is among the shaft sizes of
\* the new subset and is the smallest of them otherwise, and the stored stern
\* size stays as it was if it occurs with the selected shaft in the new
\* subset and is the smallest stern size of that shaft otherwise; a rerun
\* with no selection changed leaves both as they were
C15_SelectionsPersist ==
    [][/\ (/\ app = "fsk_app"
           /\ AllStored(session_state) /\ AllStored(session_state')
           /\ {"shaft", "stern"} \subseteq DOMAIN out'.widgets
           /\ \/ session_state'["mode"] # session_state["mode"]
              \/ session_state'["ms"] # session_state["ms"])
          => /\ session_state'["shaft"]
                  = KeptOrSmallest(session_state["shaft"],
                        UniqueValues(SubsetOf(session_state'), "ShaftSize"))
             /\ session_state'["stern"]
                  = KeptOrSmallest(session_state["stern"],
                        UniqueValues(WhereEq(SubsetOf(session_state'), "ShaftSize",
                                             session_state'["shaft"]), "SternSize"))
       /\ (app = "fsk_app" /\ AllStored(session_state) /\ Rerun)
          => /\ session_state'["shaft"] = session_state["shaft"]
             /\ session_state'["stern"] = session_state["stern"]
      ]_vars

\* fsk_app.py after the mode was changed to "Stocked + Can order", with a
\* stored shaft size that both datasets have for the measurement system and
\* that is not the smallest of the new subset
C15_Witness ==
    /\ app = "fsk_app" /\ out.status = "done" /\ AllStored(session_state)
    /\ ModeOf = "Stocked + Can order"
    /\ DatasetAt(CSV_STOCKED) # DatasetAt(CSV_STOCKED_OR_ORDERABLE)
    /\ session_state["shaft"]
          \in UniqueValues(WhereEq(DatasetAt(CSV_STOCKED), "Measurement_System",
                                   session_state["ms"]), "ShaftSize")
    /\ session_state["shaft"]
          # Smallest(UniqueValues(SubsetOf(session_state), "ShaftSize"))

(* Claims about the crossover rule as a function *)

\* the shaft of the query is at most 2.75 in: a size in mm is s/25.4 in, and
\* s/25.4 <= 2.75 exactly when 10 s <= 254 * 2.75 (sizes in thousandths); a
\* size with any other unit string is taken as inches
AtMostCutoffInches ==
    IF cx.units = <<"mm">> THEN 10 * cx.shaft <= 254 * 2750 ELSE cx.shaft <= 2750

\* the shaft of the query is strictly between 2.75 in and 3.0 in
BetweenCutoffAndThree ==
    IF cx.units = <<"mm">>
    THEN 10 * cx.shaft > 254 * 2750 /\ 10 * cx.shaft < 254 * 3000
    ELSE cx.shaft > 2750 /\ cx.shaft < 3000

\* C16: crossover_label and crossover_sku_for_shaft answer every shaft size
\* and unit string with one of the two kits, the small kit exactly when the
\* size in inches (divided by 25.4 when the unit is exactly "mm", as it is
\* otherwise) is at most 2.75; a size strictly between 2.75 in and 3.0 in
\* gets the large kit
C16_RuleTotalTwoValued ==
    cx.by \in {"crossover_label", "crossover_sku_for_shaft"} =>
        /\ cx.kit \in SmallKit \cup LargeKit
        /\ cx.kit \in SmallKit <=> AtMostCutoffInches
        /\ cx.kit \in LargeKit <=> ~AtMostCutoffInches
        /\ BetweenCutoffAndThree => cx.kit \in LargeKit

\* crossover_label answered a size in inches strictly between 2.75 and 3.0
C16_Witness ==
    /\ cx.by = "crossover_label" /\ cx.units = <<"in">>
    /\ BetweenCutoffAndThree
    /\ cx.kit = "Crossover Kit 500"

=============================================================================
